---- MODULE Spec2Model ----
(***************************************************************************)
(* A model of the playback-to-recording orchestrator of project-clippi     *)
(* (src/src/renderer/lib/dolphin.ts): the DolphinRecorder class, its two   *)
(* concatMap pipelines (playback status and engine exit), the recording    *)
(* controller it drives, and the queue-file load path.                     *)
(*                                                                         *)
(* One step of the model is one macrotask of the JavaScript event loop:    *)
(* an event arriving from the engine, a timer firing, a command to the     *)
(* recording controller completing.  Everything the code runs              *)
(* synchronously or in microtasks after such an arrival (the handler up    *)
(* to its next suspension, concatMap pulling the next buffered event) is   *)
(* part of the same step.                                                  *)
(***************************************************************************)
EXTENDS Integers, Sequences, FiniteSets, TLC

\* Bounds of the model: the number of inputs the environment gives (loadJSON
\* calls, playback payloads, engine exits) and the grain of time.
MaxInputs == 4
TickMs == 500
\* Bounds of the load path: the length of a file list, the number of calls (loads
\* and saves together), and how far the clock behind Date.now() advances.
MaxFiles == 3
MaxCalls == 2
MaxClock == 1
\* Bounds of the pending queue and of saving it: the length of the queue in the
\* store and the number of saveQueueToFile calls.
MaxQueue == 1
MaxSaves == 2

\* The number of paths the caller keeps when it narrows its file list.
SelectionLen == 1

\* The number of events of the environment of the load and save paths over a
\* behaviour: a millisecond passing, the caller's list or the store's queue
\* changing, a write call of fs.writeFile stopping short of the rest of its
\* payload.
MaxEnvEvents == 1

\* dolphin.ts:25
DELAY_AMOUNT_MS == 1000

VARIABLES
    recordingEnabled,   \* DolphinRecorder.recordingEnabled
    startAction,        \* DolphinRecorder.startAction
    endAction,          \* DolphinRecorder.endAction
    currentBasename,    \* value of currentBasenameSource
    dolphin,            \* DolphinLauncher.dolphin: "none" | "running" | "killed" | "exited"
    obsConnected,       \* obsConnection.isConnected()
    obsStatus,          \* device: "STOPPED" | "RECORDING" | "PAUSED"
    pbSubscribed,       \* the playbackStatus$ subscription is alive
    pbBuffer,           \* events waiting inside concatMap (playback pipeline)
    quitSubscribed,     \* the dolphinQuit$ subscription is alive
    quitBuffer,         \* signals waiting inside concatMap (quit pipeline)
    handlers,           \* async handlers that have begun and not settled
    evCount,            \* playback status events emitted so far
    quitCount,          \* engine-exit signals emitted so far
    loadCount,          \* loadJSON calls so far
    armedPause,         \* history: pauseBetweenEntries of the last load with record = true
    begun,              \* history: the playback events whose handler began, in order
    cmdLog,             \* history: the setRecordingState calls, in order
    killLog,            \* history: ids of the events whose handling called dolphin.kill()
    quitMark,           \* history: evCount when the last armed exit signal arrived, or -1
    fnCount,            \* paths emitted on playbackFilename$ so far
    playbackFilename,   \* the last path emitted on playbackFilename$
    argFilenames,       \* the file list given to loadSlpFilesInDolphin
    argOptions,         \* the options given to the load calls
    clock,              \* Date.now()
    writes,             \* fs.writeFile calls of loadPayloadIntoDolphin in progress, each with its offset
    files,              \* the temporary folder: file name -> the characters in the file
    callCount,          \* load calls made so far
    loadJSONLog,        \* history: the dolphinPlayer.loadJSON calls, in order
    caught,             \* the load calls whose promise has .catch(console.error) attached
    consoleErrors,      \* what console.error has been given, in order
    dolphinQueue,       \* store.getState().tempContainer.dolphinQueue
    dolphinQueueOptions, \* store.getState().tempContainer.dolphinQueueOptions
    saveCount,          \* saveQueueToFile calls made so far
    dialogs,            \* saveQueueToFile calls waiting in getFilePath
    saves,              \* fs.writeFile calls of saveQueueToFile in progress, each with its offset
    userFiles,          \* the files at paths the user chose: path -> the characters in the file
    dialogLog,          \* history: what getFilePath returned to each call, in order
    envEvents           \* events of the environment of the load and save paths so far

\* The process-wide pending queue and its options.
storeVars == <<dolphinQueue, dolphinQueueOptions>>

\* The variables of saveQueueToFile.
saveVars == <<saveCount, dialogs, saves, userFiles, dialogLog>>

\* The variables of the load path.
loaderVars == <<argFilenames, argOptions, clock, writes, files, callCount, loadJSONLog,
                caught, consoleErrors, storeVars, saveVars, envEvents>>

\* The variables of the playback-filename stream.
filenameVars == <<fnCount, playbackFilename>>

\* The variables of the recorder and of what it drives.
recorderVars == <<recordingEnabled, startAction, endAction, currentBasename, dolphin,
                  obsConnected, obsStatus, pbSubscribed, pbBuffer, quitSubscribed,
                  quitBuffer, handlers, evCount, quitCount, loadCount, armedPause,
                  begun, cmdLog, killLog, quitMark, filenameVars>>

vars == <<recordingEnabled, startAction, endAction, currentBasename, dolphin,
          obsConnected, obsStatus, pbSubscribed, pbBuffer, quitSubscribed,
          quitBuffer, handlers, evCount, quitCount, loadCount, armedPause,
          begun, cmdLog, killLog, quitMark, filenameVars, loaderVars>>

\* DolphinPlaybackStatus: the statuses of a playback payload.
DolphinPlaybackStatus == {"FILE_LOADED", "PLAYBACK_START", "PLAYBACK_END", "QUEUE_EMPTY"}

\* The payloads the engine's output stream can carry: a status and an optional data
\* object whose gameEnded flag matters for PLAYBACK_END only.
Payloads ==
    {[status |-> st, hasData |-> FALSE, gameEnded |-> FALSE] : st \in DolphinPlaybackStatus}
    \cup {[status |-> "PLAYBACK_END", hasData |-> TRUE, gameEnded |-> g] : g \in BOOLEAN}

\* Partial<DolphinPlayerOptions>: each field given as true, false, or left out.
OptionValues == {"absent", "true", "false"}

\* defaultDolphinPlayerOptions
defaultDolphinPlayerOptions == [record |-> FALSE, pauseBetweenEntries |-> TRUE]

----------------------------------------------------------------------------
\* The recording controller (obsConnection).

\* obsConnection.isRecording(): the device has a recording open (running or paused).
IsRecording(status) == status # "STOPPED"

\* The device's reaction to a command that completes; a command that does not
\* apply in the current state is a no-op.
ApplyAction(status, action) ==
    CASE action = "START" -> IF status = "STOPPED" THEN "RECORDING" ELSE status
      [] action = "STOP" -> "STOPPED"
      [] action = "PAUSE" -> IF status = "RECORDING" THEN "PAUSED" ELSE status
      [] action = "UNPAUSE" -> IF status = "PAUSED" THEN "RECORDING" ELSE status

\* A filter that forgets to ask whether the controller is connected.
ArmedIgnoringConnection == recordingEnabled

\* The filter of both pipelines.
Armed == recordingEnabled /\ obsConnected

----------------------------------------------------------------------------
\* The part of the state a handler's synchronous run reads and writes, as a record.
Bundle ==
    [recordingEnabled |-> recordingEnabled,
     handlers |-> handlers, pbBuffer |-> pbBuffer, quitBuffer |-> quitBuffer,
     obsStatus |-> obsStatus, dolphin |-> dolphin, currentBasename |-> currentBasename,
     begun |-> begun, cmdLog |-> cmdLog, killLog |-> killLog]

Commit(s) ==
    /\ recordingEnabled' = s.recordingEnabled
    /\ handlers' = s.handlers
    /\ pbBuffer' = s.pbBuffer
    /\ quitBuffer' = s.quitBuffer
    /\ obsStatus' = s.obsStatus
    /\ dolphin' = s.dolphin
    /\ currentBasename' = s.currentBasename
    /\ begun' = s.begun
    /\ cmdLog' = s.cmdLog
    /\ killLog' = s.killLog

\* obsConnection.setRecordingState(action) called by the handler of event e of
\* pipeline src: the command is in flight and the handler waits for it.  The
\* log keeps, with the call, whether the handler asked obsConnection.isRecording()
\* before it (queried), what the device and the filter condition were at that
\* moment, and how long the handler had been waiting.
SetRecordingState(s, src, e, action, kill, elapsed, delayed, queried) ==
    [s EXCEPT
        !.handlers = @ \cup {[src |-> src, e |-> e, pc |-> "cmd", action |-> action,
                              kill |-> kill, elapsed |-> elapsed, delayed |-> delayed]},
        !.cmdLog = Append(@, [src |-> src, e |-> e, action |-> action,
                              wasRecording |-> IsRecording(s.obsStatus),
                              queried |-> queried,
                              armed |-> s.recordingEnabled /\ obsConnected,
                              pause |-> armedPause, elapsed |-> elapsed,
                              delayed |-> delayed])]

\* The tail of _stopRecording: if (killDolphin && this.dolphin) this.dolphin.kill().
KillDolphin(s, killDolphin, e) ==
    IF killDolphin /\ s.dolphin # "none"
    THEN [s EXCEPT !.dolphin = IF @ = "running" THEN "killed" ELSE @,
                   !.killLog = Append(@, e.id)]
    ELSE s

\* A _stopRecording that also disables recording when it runs.
StopRecordingClosingGate(s, src, e, killDolphin) ==
    LET s1 == [s EXCEPT !.currentBasename = <<>>, !.recordingEnabled = FALSE]
    IN  IF IsRecording(s1.obsStatus)
        THEN SetRecordingState(s1, src, e, "STOP", killDolphin, 0, FALSE, TRUE)
        ELSE KillDolphin(s1, killDolphin, e)

\* _stopRecording(killDolphin) up to its first suspension.
StopRecording(s, src, e, killDolphin) ==
    LET s1 == [s EXCEPT !.currentBasename = <<>>]
    IN  IF IsRecording(s1.obsStatus)
        THEN SetRecordingState(s1, src, e, "STOP", killDolphin, 0, FALSE, TRUE)
        ELSE KillDolphin(s1, killDolphin, e)

\* A handler that always sends START for a PLAYBACK_START.
StartActionAlwaysStart(isRecording) == "START"

\* A handler that sends the mode's start action without asking the device.
StartActionFromMode(isRecording) == startAction

\* obsConnection.isRecording() ? this.startAction : OBSRecordingAction.START
StartActionFor(isRecording) == IF isRecording THEN startAction ELSE "START"

\* A handler that waits whenever the payload carries data.
NeedsSettleDelayAnyData(e) == e.hasData

\* payload.data && payload.data.gameEnded
NeedsSettleDelay(e) == e.hasData /\ e.gameEnded

\* _handleDolphinPlayback(payload) up to its first suspension.
HandleDolphinPlayback(s, e) ==
    CASE e.status = "PLAYBACK_START" ->
            SetRecordingState(s, "playback", e, StartActionFor(IsRecording(s.obsStatus)),
                              FALSE, 0, FALSE, TRUE)
      [] e.status = "PLAYBACK_END" ->
            IF NeedsSettleDelay(e)
            THEN [s EXCEPT !.handlers = @ \cup
                    {[src |-> "playback", e |-> e, pc |-> "delay", action |-> "STOP",
                      kill |-> FALSE, elapsed |-> 0, delayed |-> TRUE]}]
            ELSE SetRecordingState(s, "playback", e, endAction, FALSE, 0, FALSE, FALSE)
      [] e.status = "QUEUE_EMPTY" ->
            StopRecording(s, "playback", e, TRUE)
      [] OTHER -> s

PlaybackActive(s) == {h \in s.handlers : h.src = "playback"}
QuitActive(s) == {h \in s.handlers : h.src = "quit"}

\* concatMap projecting one playback payload: the handler begins.
BeginPlayback(s, e) ==
    HandleDolphinPlayback([s EXCEPT !.begun = Append(@, e)], e)

\* A pipeline that applies the filter again when it takes a payload from the
\* buffer, and drops it if recording is disabled or the controller is gone.
RECURSIVE DrainPlaybackRefiltered(_)
DrainPlaybackRefiltered(s) ==
    IF PlaybackActive(s) = {} /\ s.pbBuffer # <<>>
    THEN IF s.recordingEnabled /\ obsConnected
         THEN DrainPlaybackRefiltered(BeginPlayback([s EXCEPT !.pbBuffer = Tail(@)],
                                                    Head(s.pbBuffer)))
         ELSE DrainPlaybackRefiltered([s EXCEPT !.pbBuffer = Tail(@)])
    ELSE s

\* concatMap after an inner handler completed: the buffered payloads are projected
\* one after the other until a handler suspends.
RECURSIVE DrainPlayback(_)
DrainPlayback(s) ==
    IF PlaybackActive(s) = {} /\ s.pbBuffer # <<>>
    THEN DrainPlayback(BeginPlayback([s EXCEPT !.pbBuffer = Tail(@)], Head(s.pbBuffer)))
    ELSE s

\* mergeMap in the place of concatMap: every payload is projected as it arrives.
MergeMapPlayback(s, e) == BeginPlayback(s, e)

\* concatMap (a merge with concurrency 1) receiving a payload that passed the filter.
ConcatMapPlayback(s, e) ==
    IF PlaybackActive(s) # {}
    THEN [s EXCEPT !.pbBuffer = Append(@, e)]
    ELSE DrainPlayback(BeginPlayback(s, e))

\* The exit signal carries no payload; as an event it has an id and, for the
\* record, the load and the mode it arrived under.
QuitEvent(q) ==
    [id |-> q, status |-> "QUIT", hasData |-> FALSE, gameEnded |-> FALSE,
     load |-> loadCount, pause |-> armedPause]

\* concatMap projecting one exit signal: _stopRecording() begins.
BeginQuit(s, q) == StopRecording(s, "quit", QuitEvent(q), FALSE)

RECURSIVE DrainQuit(_)
DrainQuit(s) ==
    IF QuitActive(s) = {} /\ s.quitBuffer # <<>>
    THEN DrainQuit(BeginQuit([s EXCEPT !.quitBuffer = Tail(@)], Head(s.quitBuffer)))
    ELSE s

ConcatMapQuit(s, q) ==
    IF QuitActive(s) # {}
    THEN [s EXCEPT !.quitBuffer = Append(@, q)]
    ELSE DrainQuit(BeginQuit(s, q))

----------------------------------------------------------------------------
\* new DolphinRecorder(dolphinPath, opts): the fields, the two pipelines, and the
\* world around them before anything has happened.
InitRecorder ==
    /\ recordingEnabled = FALSE
    /\ startAction = "START"
    /\ endAction = "STOP"
    /\ currentBasename = <<>>
    /\ dolphin = "none"
    /\ obsConnected = FALSE
    /\ obsStatus = "STOPPED"
    /\ pbSubscribed = TRUE
    /\ pbBuffer = <<>>
    /\ quitSubscribed = TRUE
    /\ quitBuffer = <<>>
    /\ handlers = {}
    /\ evCount = 0
    /\ quitCount = 0
    /\ loadCount = 0
    /\ armedPause = defaultDolphinPlayerOptions.pauseBetweenEntries
    /\ begun = <<>>
    /\ cmdLog = <<>>
    /\ killLog = <<>>
    /\ quitMark = -1
    /\ fnCount = 0
    /\ playbackFilename = <<>>

\* No load or save has been made; the store holds an empty queue.
InitQueueFiles ==
    /\ caught = {}
    /\ consoleErrors = <<>>
    /\ saveCount = 0
    /\ dialogs = {}
    /\ saves = {}
    /\ userFiles = <<>>
    /\ dialogLog = <<>>
    /\ envEvents = 0

\* The store before anything is queued.
InitStore ==
    /\ dolphinQueue = <<>>
    /\ dolphinQueueOptions = [mode |-> "queue", isRealTimeMode |-> FALSE]

Init ==
    /\ InitRecorder
    /\ argFilenames = <<>>
    /\ argOptions = [record |-> "absent", pauseBetweenEntries |-> "absent"]
    /\ clock = 0
    /\ writes = {}
    /\ files = <<>>
    /\ callCount = 0
    /\ loadJSONLog = <<>>
    /\ InitQueueFiles
    /\ InitStore

\* Object.assign({}, defaultDolphinPlayerOptions, options)
ResolveOption(given, default) ==
    IF given = "absent" THEN default ELSE given = "true"

\* DolphinRecorder.loadJSON(comboFilePath, options), super.loadJSON included: the
\* engine process is launched on the queue file.
LoadJSON(record, pauseBetweenEntries) ==
    LET opts == [record |-> ResolveOption(record, defaultDolphinPlayerOptions.record),
                 pauseBetweenEntries |->
                    ResolveOption(pauseBetweenEntries,
                                  defaultDolphinPlayerOptions.pauseBetweenEntries)]
    IN  /\ loadCount' = loadCount + 1
        /\ recordingEnabled' = opts.record
        /\ IF opts.record
           THEN /\ startAction' = IF opts.pauseBetweenEntries THEN "UNPAUSE" ELSE "START"
                /\ endAction' = IF opts.pauseBetweenEntries THEN "PAUSE" ELSE "STOP"
                /\ armedPause' = opts.pauseBetweenEntries
           ELSE UNCHANGED <<startAction, endAction, armedPause>>
        /\ dolphin' = "running"

\* openComboInDolphin(filePath, options), called with a queue file that exists.
OpenComboInDolphin(record, pauseBetweenEntries) ==
    /\ evCount + quitCount + loadCount + fnCount < MaxInputs
    /\ LoadJSON(record, pauseBetweenEntries)
    /\ UNCHANGED <<currentBasename, obsConnected, obsStatus, pbSubscribed, pbBuffer,
                   quitSubscribed, quitBuffer, handlers, evCount, quitCount,
                   begun, cmdLog, killLog, quitMark, filenameVars, loaderVars>>

\* The recording controller connects or loses its connection.
ObsConnectionChange ==
    /\ obsConnected' = ~obsConnected
    /\ UNCHANGED <<recordingEnabled, startAction, endAction, currentBasename, dolphin,
                   obsStatus, pbSubscribed, pbBuffer, quitSubscribed, quitBuffer,
                   handlers, evCount, quitCount, loadCount, armedPause, begun, cmdLog,
                   killLog, quitMark, filenameVars, loaderVars>>

\* output.playbackStatus$ emits a payload: filter, then concatMap.
PlaybackStatus(p) ==
    /\ evCount + quitCount + loadCount + fnCount < MaxInputs
    /\ dolphin \in {"running", "killed"}
    /\ evCount' = evCount + 1
    /\ LET e == [id |-> evCount + 1, status |-> p.status, hasData |-> p.hasData,
                 gameEnded |-> p.gameEnded, load |-> loadCount, pause |-> armedPause]
       IN  IF pbSubscribed /\ Armed
           THEN Commit(ConcatMapPlayback(Bundle, e))
           ELSE UNCHANGED <<recordingEnabled, handlers, pbBuffer, quitBuffer, obsStatus,
                            dolphin, currentBasename, begun, cmdLog, killLog>>
    /\ UNCHANGED <<startAction, endAction, obsConnected, pbSubscribed,
                   quitSubscribed, quitCount, loadCount, armedPause, quitMark,
                   filenameVars, loaderVars>>

\* The engine process exits and dolphinQuit$ emits: filter, then concatMap.
DolphinQuit ==
    /\ evCount + quitCount + loadCount + fnCount < MaxInputs
    /\ dolphin \in {"running", "killed"}
    /\ quitCount' = quitCount + 1
    /\ IF quitSubscribed /\ Armed
       THEN /\ Commit(ConcatMapQuit([Bundle EXCEPT !.dolphin = "exited"], quitCount + 1))
            /\ quitMark' = evCount
       ELSE /\ dolphin' = "exited"
            /\ UNCHANGED <<recordingEnabled, handlers, pbBuffer, quitBuffer, obsStatus,
                           currentBasename, begun, cmdLog, killLog, quitMark>>
    /\ UNCHANGED <<startAction, endAction, obsConnected, pbSubscribed,
                   quitSubscribed, evCount, loadCount, armedPause, filenameVars, loaderVars>>

\* Time passes while a handler sits in delay(DELAY_AMOUNT_MS).
Tick ==
    /\ \E h \in handlers : h.pc = "delay" /\ h.elapsed < DELAY_AMOUNT_MS
    /\ handlers' = {IF h.pc = "delay" THEN [h EXCEPT !.elapsed = @ + TickMs] ELSE h
                    : h \in handlers}
    /\ UNCHANGED <<recordingEnabled, startAction, endAction, currentBasename, dolphin,
                   obsConnected, obsStatus, pbSubscribed, pbBuffer, quitSubscribed,
                   quitBuffer, evCount, quitCount, loadCount, armedPause, begun, cmdLog,
                   killLog, quitMark, filenameVars, loaderVars>>

\* The timer of delay(ms) has run for ms.
TimerDue(h, ms) == h.elapsed >= ms

\* The delay of a PLAYBACK_END handler is over: it sends this.endAction.
DelayDone(h) ==
    /\ h.pc = "delay"
    /\ TimerDue(h, DELAY_AMOUNT_MS)
    /\ Commit(SetRecordingState([Bundle EXCEPT !.handlers = @ \ {h}], h.src, h.e,
                                endAction, FALSE, h.elapsed, TRUE, FALSE))
    /\ UNCHANGED <<startAction, endAction, obsConnected, pbSubscribed,
                   quitSubscribed, evCount, quitCount, loadCount, armedPause, quitMark,
                   filenameVars, loaderVars>>

\* A command completes: the device changes state, the handler that awaited it
\* runs to its end, and concatMap projects what is buffered behind it.
CommandResolved(h) ==
    /\ h.pc = "cmd"
    /\ LET s0 == [Bundle EXCEPT !.handlers = @ \ {h},
                                !.obsStatus = ApplyAction(@, h.action)]
           s1 == KillDolphin(s0, h.kill, h.e)
       IN  Commit(IF h.src = "playback" THEN DrainPlayback(s1) ELSE DrainQuit(s1))
    /\ UNCHANGED <<startAction, endAction, obsConnected, pbSubscribed,
                   quitSubscribed, evCount, quitCount, loadCount, armedPause, quitMark,
                   filenameVars, loaderVars>>

\* A handler that kills the engine although its STOP was rejected.
CommandRejectedStillKills(h) ==
    /\ h.pc = "cmd"
    /\ handlers' = handlers \ {h}
    /\ dolphin' = IF h.kill /\ dolphin = "running" THEN "killed" ELSE dolphin
    /\ killLog' = IF h.kill /\ dolphin # "none" THEN Append(killLog, h.e.id) ELSE killLog
    /\ IF h.src = "playback"
       THEN /\ pbSubscribed' = FALSE
            /\ pbBuffer' = <<>>
            /\ UNCHANGED <<quitSubscribed, quitBuffer>>
       ELSE /\ quitSubscribed' = FALSE
            /\ quitBuffer' = <<>>
            /\ UNCHANGED <<pbSubscribed, pbBuffer>>
    /\ UNCHANGED <<recordingEnabled, startAction, endAction, currentBasename,
                   obsConnected, obsStatus, evCount, quitCount, loadCount, armedPause,
                   begun, cmdLog, quitMark, filenameVars, loaderVars>>

\* A command is rejected: the handler's promise rejects, from(promise) errors,
\* concatMap forwards the error and the subscription (made without an error
\* callback) is torn down with whatever it had buffered.
CommandRejected(h) ==
    /\ h.pc = "cmd"
    /\ handlers' = handlers \ {h}
    /\ IF h.src = "playback"
       THEN /\ pbSubscribed' = FALSE
            /\ pbBuffer' = <<>>
            /\ UNCHANGED <<quitSubscribed, quitBuffer>>
       ELSE /\ quitSubscribed' = FALSE
            /\ quitBuffer' = <<>>
            /\ UNCHANGED <<pbSubscribed, pbBuffer>>
    /\ UNCHANGED <<recordingEnabled, startAction, endAction, currentBasename, dolphin,
                   obsConnected, obsStatus, evCount, quitCount, loadCount, armedPause,
                   begun, cmdLog, killLog, quitMark, filenameVars, loaderVars>>

\* The paths the engine reports on playbackFilename$: d/a.slp and b.slp.
PlaybackPaths ==
    { <<"d", "/", "a", ".", "s", "l", "p">>,
      <<"b", ".", "s", "l", "p">> }

\* The loop of path.basename (posix) from position i (0-based) down to 0: st
\* holds its locals start, end and matchedSlash.
RECURSIVE BaseNameScan(_, _, _)
BaseNameScan(path, i, st) ==
    IF i < 0 THEN st
    ELSE IF path[i + 1] = "/"
    THEN IF ~st.matchedSlash
         THEN [st EXCEPT !.start = i + 1]
         ELSE BaseNameScan(path, i - 1, st)
    ELSE IF st.end = -1
         THEN BaseNameScan(path, i - 1, [st EXCEPT !.matchedSlash = FALSE, !.end = i + 1])
         ELSE BaseNameScan(path, i - 1, st)

\* path.basename(fullpath)
BaseName(fullpath) ==
    LET st == BaseNameScan(fullpath, Len(fullpath) - 1,
                           [start |-> 0, end |-> -1, matchedSlash |-> TRUE])
    IN  IF st.end = -1 THEN <<>> ELSE SubSeq(fullpath, st.start + 1, st.end)

\* A basename subscription placed behind the filter of the event pipelines.
PlaybackFilenameWhenArmed(fullpath) ==
    /\ evCount + quitCount + loadCount + fnCount < MaxInputs
    /\ dolphin \in {"running", "killed"}
    /\ fnCount' = fnCount + 1
    /\ playbackFilename' = fullpath
    /\ currentBasename' = IF Armed THEN BaseName(fullpath) ELSE currentBasename
    /\ UNCHANGED <<recordingEnabled, startAction, endAction, dolphin, obsConnected,
                   obsStatus, pbSubscribed, pbBuffer, quitSubscribed, quitBuffer,
                   handlers, evCount, quitCount, loadCount, armedPause, begun, cmdLog,
                   killLog, quitMark, loaderVars>>

\* playbackFilename$ emits the path of the file the engine plays: the third
\* subscription of the constructor maps it to its basename and publishes it.
PlaybackFilename(fullpath) ==
    /\ evCount + quitCount + loadCount + fnCount < MaxInputs
    /\ dolphin \in {"running", "killed"}
    /\ fnCount' = fnCount + 1
    /\ playbackFilename' = fullpath
    /\ currentBasename' = BaseName(fullpath)
    /\ UNCHANGED <<recordingEnabled, startAction, endAction, dolphin, obsConnected,
                   obsStatus, pbSubscribed, pbBuffer, quitSubscribed, quitBuffer,
                   handlers, evCount, quitCount, loadCount, armedPause, begun, cmdLog,
                   killLog, quitMark, loaderVars>>

Next ==
    \/ \E r \in OptionValues, p \in OptionValues : OpenComboInDolphin(r, p)
    \/ \E f \in PlaybackPaths : PlaybackFilename(f)
    \/ ObsConnectionChange
    \/ \E p \in Payloads : PlaybackStatus(p)
    \/ DolphinQuit
    \/ Tick
    \/ \E h \in handlers : DelayDone(h)
    \/ \E h \in handlers : CommandResolved(h)
    \/ \E h \in handlers : CommandRejected(h)

Spec == Init /\ [][Next]_vars

----------------------------------------------------------------------------
\* The load path: loadSlpFilesInDolphin, loadPayloadIntoDolphin.

\* A path is a sequence of characters.
DotSlp == <<".", "s", "l", "p">>

\* The paths a caller passes: a.slp, a.txt, b.slp and .slp (a dot file named
\* slp, which has no extension).
FileNames ==
    { <<"a", ".", "s", "l", "p">>,
      <<"a", ".", "t", "x", "t">>,
      <<"b", ".", "s", "l", "p">>,
      <<".", "s", "l", "p">> }

\* The file lists of at most n paths, each path at most once.
RECURSIVE FileLists(_)
FileLists(n) ==
    IF n = 0 THEN {<<>>}
    ELSE FileLists(n - 1) \cup
         UNION {{Append(l, f) : f \in FileNames \ {l[i] : i \in DOMAIN l}} :
                    l \in {x \in FileLists(n - 1) : Len(x) = n - 1}}

\* The loop of path.extname (posix) from position i (0-based) down to 0: st holds
\* its locals startDot, startPart, end, matchedSlash and preDotState.
RECURSIVE ExtNameScan(_, _, _)
ExtNameScan(path, i, st) ==
    IF i < 0 THEN st
    ELSE IF path[i + 1] = "/"
    THEN IF ~st.matchedSlash
         THEN [st EXCEPT !.startPart = i + 1]
         ELSE ExtNameScan(path, i - 1, st)
    ELSE LET st1 == IF st.end = -1
                    THEN [st EXCEPT !.matchedSlash = FALSE, !.end = i + 1]
                    ELSE st
             st2 == IF path[i + 1] = "."
                    THEN IF st1.startDot = -1 THEN [st1 EXCEPT !.startDot = i]
                         ELSE IF st1.preDotState # 1 THEN [st1 EXCEPT !.preDotState = 1]
                         ELSE st1
                    ELSE IF st1.startDot # -1 THEN [st1 EXCEPT !.preDotState = -1]
                    ELSE st1
         IN  ExtNameScan(path, i - 1, st2)

\* path.extname(path)
ExtName(path) ==
    LET st == ExtNameScan(path, Len(path) - 1,
                          [startDot |-> -1, startPart |-> 0, end |-> -1,
                           matchedSlash |-> TRUE, preDotState |-> 0])
    IN  IF \/ st.startDot = -1
           \/ st.end = -1
           \/ st.preDotState = 0
           \/ (st.preDotState = 1 /\ st.startDot = st.end - 1
                                  /\ st.startDot = st.startPart + 1)
        THEN <<>>
        ELSE SubSeq(path, st.startDot + 1, st.end)

\* filename => filename.endsWith(".slp")
IsSlpFileBySuffix(filename) ==
    Len(filename) >= 4 /\ SubSeq(filename, Len(filename) - 3, Len(filename)) = DotSlp

\* filename => path.extname(filename) === ".slp"
IsSlpFile(filename) == ExtName(filename) = DotSlp

\* filenames.filter(...).map(filename => ({path: filename}))
RECURSIVE SlpQueue(_)
SlpQueue(filenames) ==
    IF filenames = <<>> THEN <<>>
    ELSE IF IsSlpFile(Head(filenames))
         THEN <<[path |-> Head(filenames)]>> \o SlpQueue(Tail(filenames))
         ELSE SlpQueue(Tail(filenames))

\* The characters of the strings the documents hold: their keys and the
\* values of their options.
Chars(str) ==
    CASE str = "queue" -> <<"q", "u", "e", "u", "e">>
      [] str = "mode" -> <<"m", "o", "d", "e">>
      [] str = "path" -> <<"p", "a", "t", "h">>
      [] str = "isRealTimeMode" ->
            <<"i", "s", "R", "e", "a", "l", "T", "i", "m", "e", "M", "o", "d", "e">>
      [] str = "true" -> <<"t", "r", "u", "e">>
      [] str = "false" -> <<"f", "a", "l", "s", "e">>

\* JSON.stringify of a string: the characters between quotes (no character of
\* the paths and options here needs an escape).
Quoted(chars) == <<"\"">> \o chars \o <<"\"">>

\* JSON.stringify with indent 2: a line feed and the indentation of the level.
NewLine(indent) == <<"\n">> \o [i \in 1..indent |-> " "]

\* JSON.stringify of a queue entry { path } whose brace is at the given indent.
StringifyEntry(entry, indent) ==
    <<"{">> \o NewLine(indent + 2) \o Quoted(Chars("path")) \o <<":", " ">>
            \o Quoted(entry.path) \o NewLine(indent) \o <<"}">>

\* JSON.stringify of the elements of a queue, each on its line, commas between.
RECURSIVE StringifyEntries(_, _)
StringifyEntries(queue, indent) ==
    IF Len(queue) = 0 THEN <<>>
    ELSE NewLine(indent) \o StringifyEntry(queue[1], indent)
         \o (IF Len(queue) > 1 THEN <<",">> ELSE <<>>)
         \o StringifyEntries(SubSeq(queue, 2, Len(queue)), indent)

\* JSON.stringify of a queue that is the value of a member at the given indent.
StringifyArray(queue, indent) ==
    IF Len(queue) = 0 THEN <<"[", "]">>
    ELSE <<"[">> \o StringifyEntries(queue, indent + 2) \o NewLine(indent) \o <<"]">>

\* JSON.stringify of a member of the document: its key, a colon, its value.
Member(key, text) == NewLine(2) \o Quoted(Chars(key)) \o <<":", " ">> \o text

\* JSON.stringify(value, undefined, 2) of a queue document: the members mode and
\* isRealTimeMode where the document has them, then the queue.
JSONStringify(value) ==
    LET mode == IF "mode" \in DOMAIN value
                THEN Member("mode", Quoted(Chars(value.mode))) \o <<",">>
                ELSE <<>>
        realTime == IF "isRealTimeMode" \in DOMAIN value
                    THEN Member("isRealTimeMode",
                                Chars(IF value.isRealTimeMode THEN "true" ELSE "false"))
                         \o <<",">>
                    ELSE <<>>
    IN  <<"{">> \o mode \o realTime \o Member("queue", StringifyArray(value.queue, 2))
                \o NewLine(0) \o <<"}">>

\* generateDolphinQueuePayload(queue): the text of the document { queue }.
GenerateDolphinQueuePayload(queue) == JSONStringify([queue |-> queue])

\* randomTempJSONFile(): `${Date.now()}_dolphin_queue.json` in the temp folder,
\* named here by the Date.now() value alone.
RandomTempJSONFile == clock

\* The byte a file holds where nothing was written, below a write at a later
\* offset.
Hole == "NUL"

\* A file after a write call that puts the characters from + 1 .. to of the
\* payload at their offsets: they take their places, what the file held
\* elsewhere stays. A write call takes any number of the characters left.
WriteAt(content, payload, from, to) ==
    LET last == IF Len(content) > to THEN Len(content) ELSE to
    IN  [i \in 1..last |->
            IF i > from /\ i <= to THEN payload[i]
            ELSE IF i <= Len(content) THEN content[i]
            ELSE Hole]

\* loadPayloadIntoDolphin(payload, options) up to its await: the file name is
\* taken and fs.writeFile is started. pos is the offset of the write in its own
\* file descriptor, the number of characters it has put in the file, -1 while
\* the file is not open.
LoadPayloadIntoDolphin(payload, options) ==
    writes' = writes \cup {[call |-> callCount + 1, file |-> RandomTempJSONFile,
                            payload |-> payload, options |-> options,
                            filenames |-> argFilenames, pos |-> -1]}

\* loadSlpFilesInDolphin(filenames, options)
LoadSlpFilesInDolphin ==
    /\ callCount < MaxCalls
    /\ callCount' = callCount + 1
    /\ LET queue == SlpQueue(argFilenames)
       IN  IF Len(queue) = 0
           THEN UNCHANGED writes
           ELSE LoadPayloadIntoDolphin(GenerateDolphinQueuePayload(queue), argOptions)
    /\ UNCHANGED <<envEvents, filenameVars,
                   recordingEnabled, startAction, endAction, currentBasename, dolphin,
                   obsConnected, obsStatus, pbSubscribed, pbBuffer, quitSubscribed,
                   quitBuffer, handlers, evCount, quitCount, loadCount, armedPause,
                   begun, cmdLog, killLog, quitMark, argFilenames, argOptions, clock,
                   files, loadJSONLog, caught, consoleErrors, storeVars, saveVars>>

\* The caller narrows its file list to the first SelectionLen paths before
\* another call.
SelectFiles ==
    /\ envEvents < MaxEnvEvents
    /\ envEvents' = envEvents + 1
    /\ Len(argFilenames) > SelectionLen
    /\ argFilenames' = SubSeq(argFilenames, 1, SelectionLen)
    /\ UNCHANGED <<filenameVars, recorderVars, argOptions, clock, writes, files,
                   callCount, loadJSONLog, caught, consoleErrors, storeVars, saveVars>>

\* fs.writeFile(outputFile, payload) opens the file for writing: the file is
\* created, or cut to nothing when it exists.
WriteFileOpen(w) ==
    /\ w.pos = -1
    /\ writes' = (writes \ {w}) \cup {[w EXCEPT !.pos = 0]}
    /\ files' = [n \in DOMAIN files \cup {w.file} |->
                    IF n = w.file THEN <<>> ELSE files[n]]
    /\ UNCHANGED <<envEvents, filenameVars, recorderVars, argFilenames, argOptions, clock,
                   callCount, loadJSONLog, caught, consoleErrors, storeVars, saveVars>>

\* One write call of fs.writeFile: the next n characters of the payload go into
\* the file at the offset of this write; the call takes all that is left or
\* stops short of it.
WriteFileChunk(w, n) ==
    /\ w.pos >= 0
    /\ n \in 1..(Len(w.payload) - w.pos)
    /\ IF w.pos + n < Len(w.payload)
       THEN envEvents < MaxEnvEvents /\ envEvents' = envEvents + 1
       ELSE UNCHANGED envEvents
    /\ writes' = (writes \ {w}) \cup {[w EXCEPT !.pos = w.pos + n]}
    /\ files' = [files EXCEPT ![w.file] = WriteAt(files[w.file], w.payload,
                                                   w.pos, w.pos + n)]
    /\ UNCHANGED <<filenameVars, recorderVars, argFilenames, argOptions, clock,
                   callCount, loadJSONLog, caught, consoleErrors, storeVars, saveVars>>

\* fs.writeFile(outputFile, payload) has written all of the payload, closes the
\* file and resolves; loadPayloadIntoDolphin resumes and calls
\* openComboInDolphin(outputFile, options). The log keeps what the file holds
\* at the call.
WriteFileDone(w) ==
    /\ w.pos = Len(w.payload)
    /\ writes' = writes \ {w}
    /\ LoadJSON(w.options.record, w.options.pauseBetweenEntries)
    /\ loadJSONLog' = Append(loadJSONLog, [path |-> w.file, options |-> w.options,
                                           payload |-> w.payload,
                                           filenames |-> w.filenames,
                                           content |-> files[w.file]])
    /\ UNCHANGED <<envEvents, filenameVars,
                   currentBasename, obsConnected, obsStatus, pbSubscribed, pbBuffer,
                   quitSubscribed, quitBuffer, handlers, evCount, quitCount, begun,
                   cmdLog, killLog, quitMark, argFilenames, argOptions, clock, files,
                   callCount, caught, consoleErrors, storeVars, saveVars>>

\* fs.writeFile rejects: at open, at a write call with part of the payload in
\* the file, or at close with all of it there. The file stays as the write left
\* it, loadPayloadIntoDolphin rejects at its await, and the rejection goes to
\* console.error where the caller attached it.
WriteFileFailed(w) ==
    /\ w \in writes
    /\ writes' = writes \ {w}
    /\ consoleErrors' = IF w.call \in caught
                        THEN Append(consoleErrors, "writeFile failed")
                        ELSE consoleErrors
    /\ UNCHANGED <<envEvents, filenameVars,
                   recordingEnabled, startAction, endAction, currentBasename, dolphin,
                   obsConnected, obsStatus, pbSubscribed, pbBuffer, quitSubscribed,
                   quitBuffer, handlers, evCount, quitCount, loadCount, armedPause,
                   begun, cmdLog, killLog, quitMark, argFilenames, argOptions, clock,
                   files, callCount, loadJSONLog, caught, storeVars, saveVars>>

\* A millisecond passes.
ClockTick ==
    /\ envEvents < MaxEnvEvents
    /\ envEvents' = envEvents + 1
    /\ clock < MaxClock
    /\ clock' = clock + 1
    /\ UNCHANGED <<filenameVars,
                   recordingEnabled, startAction, endAction, currentBasename, dolphin,
                   obsConnected, obsStatus, pbSubscribed, pbBuffer, quitSubscribed,
                   quitBuffer, handlers, evCount, quitCount, loadCount, armedPause,
                   begun, cmdLog, killLog, quitMark, argFilenames, argOptions, writes,
                   files, callCount, loadJSONLog, caught, consoleErrors,
                   storeVars, saveVars>>

\* The load path on its own: a caller with a file list and options.
InitLoad ==
    /\ InitRecorder
    /\ argFilenames \in FileLists(MaxFiles)
    /\ argOptions \in [record : {"absent", "true"}, pauseBetweenEntries : {"absent"}]
    /\ clock = 0
    /\ writes = {}
    /\ files = <<>>
    /\ callCount = 0
    /\ loadJSONLog = <<>>
    /\ InitQueueFiles
    /\ InitStore

NextLoad ==
    \/ LoadSlpFilesInDolphin
    \/ SelectFiles
    \/ \E w \in writes : WriteFileOpen(w)
    \/ \E w \in writes : \E n \in 1..Len(w.payload) : WriteFileChunk(w, n)
    \/ \E w \in writes : WriteFileDone(w)
    \/ \E w \in writes : WriteFileFailed(w)
    \/ ClockTick

SpecLoad == InitLoad /\ [][NextLoad]_vars

----------------------------------------------------------------------------
\* The pending queue of the store: loadQueueIntoDolphin, saveQueueToFile.

\* The entries a pending queue holds.
QueueEntries == {[path |-> <<"a", ".", "s", "l", "p">>], [path |-> <<"b", ".", "s", "l", "p">>]}

\* The pending queues of at most n entries.
RECURSIVE StoreQueues(_)
StoreQueues(n) ==
    IF n = 0 THEN {<<>>}
    ELSE StoreQueues(n - 1) \cup
         {Append(q, x) : q \in {y \in StoreQueues(n - 1) : Len(y) = n - 1}, x \in QueueEntries}

\* The options a pending queue carries.
StoreOptions == [mode : {"queue"}, isRealTimeMode : BOOLEAN]

\* { ...dolphinQueueOptions, queue: dolphinQueue }
QueueDocument(options, queue) ==
    [k \in DOMAIN options \cup {"queue"} |-> IF k = "queue" THEN queue ELSE options[k]]

\* loadQueueIntoDolphin(options)
LoadQueueIntoDolphin ==
    /\ callCount + saveCount < MaxCalls
    /\ callCount' = callCount + 1
    /\ LoadPayloadIntoDolphin(JSONStringify(QueueDocument(dolphinQueueOptions, dolphinQueue)),
                              argOptions)
    /\ caught' = caught \cup {callCount + 1}
    /\ UNCHANGED <<envEvents, recorderVars, argFilenames, argOptions, clock, files, loadJSONLog,
                   consoleErrors, storeVars, saveVars>>

\* The paths the user picks in the save dialog.
SavePaths == {"q1.json", "q2.json"}

\* What getFilePath(options, true) resolves to: a path, or nothing.
GetFilePathResults == SavePaths \cup {"undefined", ""}

\* !p
NoPath(p) == p \in {"undefined", ""}

\* saveQueueToFile() up to its await of getFilePath.
SaveQueueToFile ==
    /\ saveCount < MaxSaves
    /\ callCount + saveCount < MaxCalls
    /\ saveCount' = saveCount + 1
    /\ dialogs' = dialogs \cup {saveCount + 1}
    /\ UNCHANGED <<envEvents,
                   recorderVars, argFilenames, argOptions, clock, writes, files, callCount,
                   loadJSONLog, caught, consoleErrors, storeVars, saves,
                   userFiles, dialogLog>>

\* const payload = JSON.stringify({...dolphinQueueOptions, queue: dolphinQueue});
\* fs.writeFile(p, payload) is started. pos is the offset of the write in its
\* own file descriptor, -1 while the file is not open; alone tells (history)
\* that no other write of saveQueueToFile to the same path was in progress
\* during this one.
StartSave(c, p) ==
    {[sv EXCEPT !.alone = sv.alone /\ sv.path # p] : sv \in saves} \cup
    {[call |-> c, path |-> p,
      payload |-> JSONStringify(QueueDocument(dolphinQueueOptions, dolphinQueue)),
      pos |-> -1, alone |-> \A sv \in saves : sv.path # p]}

\* A saveQueueToFile without the check of the path.
GetFilePathDoneUnchecked(c, p) ==
    /\ c \in dialogs
    /\ dialogs' = dialogs \ {c}
    /\ dialogLog' = Append(dialogLog, [call |-> c, path |-> p])
    /\ saves' = StartSave(c, p)
    /\ UNCHANGED <<envEvents,
                   recorderVars, argFilenames, argOptions, clock, writes, files, callCount,
                   loadJSONLog, caught, consoleErrors, storeVars, saveCount,
                   userFiles>>

\* getFilePath resolves to p and saveQueueToFile resumes: without a path it logs
\* and returns, with one it reads the store and calls fs.writeFile(p, payload).
GetFilePathDone(c, p) ==
    /\ c \in dialogs
    /\ dialogs' = dialogs \ {c}
    /\ dialogLog' = Append(dialogLog, [call |-> c, path |-> p])
    /\ IF NoPath(p)
       THEN /\ consoleErrors' =
                    Append(consoleErrors, "Could not save queue because path is undefined")
            /\ UNCHANGED saves
       ELSE /\ saves' = StartSave(c, p)
            /\ UNCHANGED consoleErrors
    /\ UNCHANGED <<envEvents,
                   recorderVars, argFilenames, argOptions, clock, writes, files, callCount,
                   loadJSONLog, caught, storeVars, saveCount, userFiles>>

\* fs.writeFile(p, payload) of saveQueueToFile opens the file: it is created,
\* or cut to nothing when it exists.
SaveWriteOpen(sv) ==
    /\ sv \in saves
    /\ sv.pos = -1
    /\ saves' = (saves \ {sv}) \cup {[sv EXCEPT !.pos = 0]}
    /\ userFiles' = [n \in DOMAIN userFiles \cup {sv.path} |->
                        IF n = sv.path THEN <<>> ELSE userFiles[n]]
    /\ UNCHANGED <<envEvents,
                   recorderVars, argFilenames, argOptions, clock, writes, files, callCount,
                   loadJSONLog, caught, consoleErrors, storeVars, saveCount,
                   dialogs, dialogLog>>

\* One write call of that fs.writeFile: the next n characters of the payload go
\* into the file at the offset of this write; the call takes all that is left
\* or stops short of it.
SaveWriteChunk(sv, n) ==
    /\ sv \in saves
    /\ sv.pos >= 0
    /\ n \in 1..(Len(sv.payload) - sv.pos)
    /\ IF sv.pos + n < Len(sv.payload)
       THEN envEvents < MaxEnvEvents /\ envEvents' = envEvents + 1
       ELSE UNCHANGED envEvents
    /\ saves' = (saves \ {sv}) \cup {[sv EXCEPT !.pos = sv.pos + n]}
    /\ userFiles' = [userFiles EXCEPT
                        ![sv.path] = WriteAt(userFiles[sv.path], sv.payload,
                                             sv.pos, sv.pos + n)]
    /\ UNCHANGED <<recorderVars, argFilenames, argOptions, clock, writes, files, callCount,
                   loadJSONLog, caught, consoleErrors, storeVars, saveCount,
                   dialogs, dialogLog>>

\* fs.writeFile(p, payload) of saveQueueToFile has written all of the payload,
\* closes the file and resolves: saveQueueToFile resolves.
SaveWriteDone(sv) ==
    /\ sv \in saves
    /\ sv.pos = Len(sv.payload)
    /\ saves' = saves \ {sv}
    /\ UNCHANGED <<envEvents,
                   recorderVars, argFilenames, argOptions, clock, writes, files, callCount,
                   loadJSONLog, caught, consoleErrors, storeVars, saveCount,
                   dialogs, userFiles, dialogLog>>

\* fs.writeFile(p, payload) of saveQueueToFile rejects: at open, at a write call
\* with part of the payload in the file, or at close with all of it there. The
\* file stays as the write left it and saveQueueToFile rejects.
SaveWriteFailed(sv) ==
    /\ sv \in saves
    /\ saves' = saves \ {sv}
    /\ UNCHANGED <<envEvents,
                   recorderVars, argFilenames, argOptions, clock, writes, files, callCount,
                   loadJSONLog, caught, consoleErrors, storeVars, saveCount,
                   dialogs, userFiles, dialogLog>>

\* The application adds an entry to the pending queue of the store.
AddToQueue(x) ==
    /\ envEvents < MaxEnvEvents
    /\ envEvents' = envEvents + 1
    /\ Len(dolphinQueue) < MaxQueue
    /\ dolphinQueue' = Append(dolphinQueue, x)
    /\ UNCHANGED <<recorderVars, argFilenames, argOptions, clock, writes, files, callCount,
                   loadJSONLog, caught, consoleErrors, dolphinQueueOptions, saveVars>>

\* The queue path on its own: a store holding a pending queue, and callers that
\* load it and save it.
InitQueue ==
    /\ InitRecorder
    /\ argFilenames = <<>>
    /\ argOptions \in [record : {"absent", "true"}, pauseBetweenEntries : {"absent"}]
    /\ clock = 0
    /\ writes = {}
    /\ files = <<>>
    /\ callCount = 0
    /\ loadJSONLog = <<>>
    /\ InitQueueFiles
    /\ dolphinQueue \in StoreQueues(MaxQueue)
    /\ dolphinQueueOptions \in StoreOptions

NextQueue ==
    \/ LoadQueueIntoDolphin
    \/ \E w \in writes : WriteFileOpen(w)
    \/ \E w \in writes : \E n \in 1..Len(w.payload) : WriteFileChunk(w, n)
    \/ \E w \in writes : WriteFileDone(w)
    \/ \E w \in writes : WriteFileFailed(w)
    \/ ClockTick
    \/ \E x \in QueueEntries : AddToQueue(x)
    \/ SaveQueueToFile
    \/ \E c \in dialogs, p \in GetFilePathResults : GetFilePathDone(c, p)
    \/ \E sv \in saves : SaveWriteOpen(sv)
    \/ \E sv \in saves : \E n \in 1..Len(sv.payload) : SaveWriteChunk(sv, n)
    \/ \E sv \in saves : SaveWriteDone(sv)
    \/ \E sv \in saves : SaveWriteFailed(sv)

SpecQueue == InitQueue /\ [][NextQueue]_vars

----------------------------------------------------------------------------
\* Properties of the orchestrator.

\* The commands a pipeline has sent, in the order it sent them.
CommandsOf(src) == SelectSeq(cmdLog, LAMBDA c : c.src = src)

\* The handlers waiting for a command to complete: the commands in flight.
InFlight == {h \in handlers : h.pc = "cmd"}

Increasing(ids) == \A i, j \in DOMAIN ids : i < j => ids[i].id < ids[j].id

\* C1: the playback handlers begin in the order the events were emitted and one
\* at a time: while the handler of an event has not settled (it waits in its
\* settle delay or for its command), no later event's handler has begun, the
\* later events wait in emission order, and the commands sent for playback
\* events are in the order of the events that caused them.
C1_HandledInOrderOneAtATime ==
    /\ Cardinality({h \in handlers : h.src = "playback"}) <= 1
    /\ Increasing(begun)
    /\ Increasing(pbBuffer)
    /\ \A h \in handlers : h.src = "playback" =>
          /\ begun # <<>>
          /\ begun[Len(begun)].id = h.e.id
          /\ \A i \in DOMAIN pbBuffer : pbBuffer[i].id > h.e.id
    /\ \A i \in DOMAIN pbBuffer, j \in DOMAIN begun : begun[j].id < pbBuffer[i].id
    /\ Increasing([i \in DOMAIN CommandsOf("playback") |-> CommandsOf("playback")[i].e])

\* C1 witness: two commands have been sent for playback events, the second by a
\* handler that had to wait, and a third event is waiting behind it.
C1_Witness ==
    /\ Len(CommandsOf("playback")) >= 2
    /\ \E h \in handlers : h.src = "playback" /\ h.pc = "cmd"
    /\ pbBuffer # <<>>

\* C2: at most one setRecordingState command is in flight, the commands of the
\* playback handlers and of the engine-exit handlers counted together.
C2_AtMostOneCommandInFlight == Cardinality(InFlight) <= 1

\* C3: a rejected command leaves the orchestrator subscribed: a playback event
\* that arrives while armed is taken up (its handler begins, or it waits behind
\* the handler that is running), whatever failed before.
C3_StaysSubscribed ==
    [][(evCount' = evCount + 1 /\ recordingEnabled /\ obsConnected)
          => (begun' # begun \/ pbBuffer' # pbBuffer)]_vars

\* C4: while recording is disabled or the controller is not connected, a
\* playback event or an engine-exit signal that arrives is dropped: no handler
\* begins or is queued, no command is sent and the engine is not killed.
C4_DroppedWhenNotArmed ==
    [][((evCount' # evCount \/ quitCount' # quitCount)
            /\ ~(recordingEnabled /\ obsConnected))
          => UNCHANGED <<handlers, pbBuffer, quitBuffer, begun, cmdLog, killLog,
                         obsStatus, currentBasename>>]_vars

\* C4 witness: with the subscriptions alive and the device recording, a playback
\* event and an engine exit arrived while not armed and left no trace.
C4_Witness ==
    /\ pbSubscribed /\ quitSubscribed
    /\ ~(recordingEnabled /\ obsConnected)
    /\ IsRecording(obsStatus)
    /\ handlers = {} /\ pbBuffer = <<>>
    /\ evCount > Len(begun)
    /\ quitCount > 0 /\ quitMark = -1
    /\ CommandsOf("quit") = <<>>

\* C5: every QUEUE_EMPTY event whose handler has run to its end has sent a STOP
\* command and has killed the engine process.
C5_QueueEmptyStopsAndKills ==
    \A i \in DOMAIN begun :
        (/\ begun[i].status = "QUEUE_EMPTY"
         /\ \A h \in handlers : ~(h.src = "playback" /\ h.e.id = begun[i].id))
        => /\ \E k \in DOMAIN cmdLog :
                /\ cmdLog[k].src = "playback"
                /\ cmdLog[k].e.id = begun[i].id
                /\ cmdLog[k].action = "STOP"
           /\ \E k \in DOMAIN killLog : killLog[k] = begun[i].id

\* C6: a PLAYBACK_START handled while the device is recording, under a load with
\* record = true and pauseBetweenEntries = true, sends UNPAUSE.
C6_StartWhileRecordingUnpauses ==
    \A k \in DOMAIN cmdLog :
        (cmdLog[k].e.status = "PLAYBACK_START" /\ cmdLog[k].pause /\ cmdLog[k].wasRecording)
        => cmdLog[k].action = "UNPAUSE"

\* C6 witness: such a PLAYBACK_START has been handled, with the recording paused.
C6_Witness ==
    \E k \in DOMAIN cmdLog :
        /\ cmdLog[k].e.status = "PLAYBACK_START" /\ cmdLog[k].pause /\ cmdLog[k].wasRecording
        /\ k > 1 /\ cmdLog[k - 1].action = "PAUSE"

\* C7: the command of a PLAYBACK_END is the suspend action of the mode (PAUSE
\* with pauseBetweenEntries, STOP without); with gameEnded = true it is sent
\* after the handler has waited DELAY_AMOUNT_MS, otherwise at once, without a
\* delay step.
C7_EndSuspendsAfterSettleDelay ==
    /\ \A k \in DOMAIN cmdLog :
          cmdLog[k].e.status = "PLAYBACK_END" =>
            /\ cmdLog[k].action = IF cmdLog[k].pause THEN "PAUSE" ELSE "STOP"
            /\ IF cmdLog[k].e.hasData /\ cmdLog[k].e.gameEnded
               THEN cmdLog[k].delayed /\ cmdLog[k].elapsed >= 1000
               ELSE ~cmdLog[k].delayed /\ cmdLog[k].elapsed = 0
    /\ \A h \in handlers :
          h.pc = "delay" => h.e.status = "PLAYBACK_END" /\ h.e.hasData /\ h.e.gameEnded

\* C7 witness: a PLAYBACK_END with gameEnded = true has sent its command after
\* the delay, and one without gameEnded has sent its command at once.
C7_Witness ==
    /\ \E k \in DOMAIN cmdLog :
          /\ cmdLog[k].e.status = "PLAYBACK_END" /\ cmdLog[k].e.gameEnded
          /\ cmdLog[k].action = "STOP"
    /\ \E k \in DOMAIN cmdLog :
          /\ cmdLog[k].e.status = "PLAYBACK_END" /\ ~cmdLog[k].e.gameEnded
          /\ cmdLog[k].action = "PAUSE"

\* C8: once an engine-exit signal has arrived while armed and every handler
\* has settled, no playback event having arrived since, the device is not
\* recording.
C8_ExitLeavesRecordingStopped ==
    (/\ quitMark >= 0 /\ evCount = quitMark
     /\ handlers = {} /\ pbBuffer = <<>> /\ quitBuffer = <<>>)
    => ~IsRecording(obsStatus)

\* C10: a PLAYBACK_START handled while the device is not recording sends START,
\* with pauseBetweenEntries true or false.
C10_StartWhileStoppedStarts ==
    \A k \in DOMAIN cmdLog :
        (cmdLog[k].e.status = "PLAYBACK_START" /\ ~cmdLog[k].wasRecording)
        => cmdLog[k].action = "START"

\* C10 witness: such a PLAYBACK_START under the mode whose startAction is
\* UNPAUSE (pauseBetweenEntries true), where the device state decides.
C10_Witness ==
    \E k \in DOMAIN cmdLog :
        /\ cmdLog[k].e.status = "PLAYBACK_START" /\ ~cmdLog[k].wasRecording
        /\ cmdLog[k].pause /\ startAction = "UNPAUSE"
        /\ cmdLog[k].action = "START"

----------------------------------------------------------------------------
\* Properties of the load path.

\* The last component of a path starts after its last slash.
ComponentStart(f) ==
    LET slashes == {i \in DOMAIN f : f[i] = "/"}
    IN  IF slashes = {} THEN 1 ELSE (CHOOSE i \in slashes : \A j \in slashes : j <= i) + 1

\* A path has the extension .slp when its last component ends in .slp and the
\* dot of that ending is not the component's first character.
HasSlpExtension(f) ==
    /\ Len(f) - 3 > ComponentStart(f)
    /\ f[Len(f) - 3] = "." /\ f[Len(f) - 2] = "s" /\ f[Len(f) - 1] = "l" /\ f[Len(f)] = "p"

\* The queue that keeps exactly the .slp paths of a file list, in its order.
ExpectedQueue(filenames) ==
    LET kept == SelectSeq(filenames, HasSlpExtension)
    IN  [i \in DOMAIN kept |-> [path |-> kept[i]]]

\* C9: a call of loadSlpFilesInDolphin whose input has no .slp path starts no
\* write and leaves the files, the loadJSON log, the mode and the engine as they
\* were; any other call starts one write, of the document of the queue of
\* exactly the .slp paths of its input in input order. Every payload being
\* written and every payload whose file was given to loadJSON is the document
\* of that queue of its call's input.
C9_SlpFilesOnlyInOrder ==
    [][/\ callCount' # callCount
            => IF ExpectedQueue(argFilenames) = <<>>
               THEN UNCHANGED <<writes, files, loadJSONLog, recorderVars>>
               ELSE \E w \in writes' :
                        /\ w \notin writes /\ writes' = writes \cup {w}
                        /\ w.filenames = argFilenames
                        /\ w.payload = JSONStringify([queue |-> ExpectedQueue(argFilenames)])
       /\ \A w \in writes' :
             /\ w.payload = JSONStringify([queue |-> ExpectedQueue(w.filenames)])
             /\ ExpectedQueue(w.filenames) # <<>>
       /\ \A k \in DOMAIN loadJSONLog' :
             /\ loadJSONLog'[k].payload =
                    JSONStringify([queue |-> ExpectedQueue(loadJSONLog'[k].filenames)])
             /\ ExpectedQueue(loadJSONLog'[k].filenames) # <<>>]_vars

\* C9 witness: the list a.slp, a.txt, b.slp has been written and loaded as the
\* document of the queue a.slp, b.slp (89 characters, the second entry from
\* the 53rd on), and a second call, with the list narrowed, was loaded too.
C9_Witness ==
    /\ loadJSONLog # <<>>
    /\ loadJSONLog[1].filenames =
          << <<"a", ".", "s", "l", "p">>, <<"a", ".", "t", "x", "t">>,
             <<"b", ".", "s", "l", "p">> >>
    /\ loadJSONLog[1].path \in DOMAIN files
    /\ files[loadJSONLog[1].path] =
          JSONStringify([queue |-> << [path |-> <<"a", ".", "s", "l", "p">>],
                                     [path |-> <<"b", ".", "s", "l", "p">>] >>])
    /\ Len(files[loadJSONLog[1].path]) = 89
    /\ SubSeq(files[loadJSONLog[1].path], 1, 14) =
          <<"{", "\n", " ", " ", "\"", "q", "u", "e", "u", "e", "\"", ":", " ", "[">>
    /\ callCount = 2 /\ writes = {} /\ Len(loadJSONLog) = 2

----------------------------------------------------------------------------
\* Teardown and the filter condition.

\* A QUEUE_EMPTY of the load now in force has been handled to the end, or the
\* engine has exited and its exit signal has been handled to the end.
TeardownHandled ==
    \/ \E i \in DOMAIN begun :
          /\ begun[i].status = "QUEUE_EMPTY" /\ begun[i].load = loadCount
          /\ \A h \in handlers : ~(h.src = "playback" /\ h.e = begun[i])
    \/ /\ dolphin = "exited" /\ quitMark >= 0
       /\ \A h \in handlers : h.src # "quit"
       /\ quitBuffer = <<>>

\* C11: once a QUEUE_EMPTY or an engine exit has been handled for a load, a
\* playback event that arrives before the next load is dropped: no handler
\* begins, nothing is buffered and no command is sent.
C11_StrayEventDroppedAfterTeardown ==
    [][(evCount' = evCount + 1 /\ TeardownHandled)
          => UNCHANGED <<handlers, pbBuffer, begun, cmdLog, killLog>>]_vars

\* The command the mode prescribes for an event, given the pause option of the
\* mode and what the device answered.
ModeAction(status, pause, wasRecording) ==
    CASE status = "PLAYBACK_START" ->
            IF wasRecording THEN (IF pause THEN "UNPAUSE" ELSE "START") ELSE "START"
      [] status = "PLAYBACK_END" -> IF pause THEN "PAUSE" ELSE "STOP"
      [] OTHER -> "STOP"

\* C12 as stated: every command sent for an event is the one prescribed by the
\* mode of the loadJSON call under which the event was emitted.
C12_HandledWithModeOfItsLoad ==
    \A k \in DOMAIN cmdLog :
        cmdLog[k].action =
            ModeAction(cmdLog[k].e.status, cmdLog[k].e.pause, cmdLog[k].wasRecording)

\* C12: the mode changes only in loadJSON (no event handler and no teardown
\* handler changes recordingEnabled, startAction or endAction), and every
\* command is the one prescribed by the mode in force when it is sent.
C12_ModeChangesOnlyInLoadJSON ==
    [][/\ loadCount' = loadCount
            => UNCHANGED <<recordingEnabled, startAction, endAction>>
       /\ \A k \in DOMAIN cmdLog' :
            k > Len(cmdLog)
            => /\ loadCount' = loadCount
               /\ cmdLog'[k].action =
                    ModeAction(cmdLog'[k].e.status, endAction = "PAUSE",
                               cmdLog'[k].wasRecording)
               /\ (endAction = "PAUSE") = (startAction = "UNPAUSE")]_vars

\* C12 witness: a PLAYBACK_END emitted under one mode whose command was sent
\* after a later loadJSON had set the other mode, recording still being
\* enabled.
C12_Witness ==
    /\ \E k \in DOMAIN cmdLog :
          /\ cmdLog[k].e.status = "PLAYBACK_END"
          /\ cmdLog[k].e.pause # cmdLog[k].pause
          /\ cmdLog[k].e.load < loadCount
    /\ recordingEnabled

\* C13: while a command to the recording controller is pending, no step sends a
\* further command and the engine process is not killed.
C13_PendingCommandStallsEverything ==
    [][(\E h \in InFlight : h \in handlers')
          => (cmdLog' = cmdLog /\ killLog' = killLog)]_vars

\* The last component of a path that does not end in a slash.
LastComponent(f) == SubSeq(f, ComponentStart(f), Len(f))

\* C14: every path emitted on the playback-filename stream sets the current
\* basename to its last component, armed or not, and that step touches nothing
\* the handlers read; every command sent is a function of the event's status,
\* the mode and the device state alone, in a step that emits no path.
C14_BasenameFollowsFilenameStream ==
    [][/\ fnCount' # fnCount
            => /\ currentBasename' = LastComponent(playbackFilename')
               /\ UNCHANGED <<recordingEnabled, startAction, endAction, obsConnected,
                              obsStatus, dolphin, handlers, pbBuffer, quitBuffer,
                              pbSubscribed, quitSubscribed, cmdLog, killLog, begun>>
       /\ \A k \in DOMAIN cmdLog' :
            k > Len(cmdLog)
            => /\ fnCount' = fnCount
               /\ cmdLog'[k].action =
                    ModeAction(cmdLog'[k].e.status, endAction = "PAUSE",
                               cmdLog'[k].wasRecording)]_vars

\* C14 witness: recording was never enabled (one load, with record false), the
\* engine reported d/a.slp and the basename is a.slp.
C14_Witness ==
    /\ loadCount = 1 /\ ~recordingEnabled
    /\ fnCount > 0
    /\ Len(playbackFilename) > Len(currentBasename)
    /\ currentBasename = <<"a", ".", "s", "l", "p">>

----------------------------------------------------------------------------
\* Properties of the queue files.

\* C15: two materializations in progress together never write to the same
\* temporary file.
C15_DistinctTempFiles ==
    \A w1, w2 \in writes : w1.call # w2.call => w1.file # w2.file

\* A payload is the text of the pending queue and its options.
HoldsPendingQueue(payload) ==
    payload = JSONStringify(QueueDocument(dolphinQueueOptions, dolphinQueue))

\* C16: when getFilePath gives no path, saveQueueToFile logs one error, starts
\* no write and leaves the recorder, the temporary files and the user's files
\* alone; when it gives a path, one write of the pending queue and its options
\* to that path starts. A file of the user changes only at the path of a write
\* in progress, by being cut to nothing or by taking, at the write's offset, the
\* next characters of that write's document, any number of them, the offset
\* moving on by as many; and while no other save to the same path is in progress
\* the file holds exactly the characters written so far. No step of
\* saveQueueToFile touches the recorder or the temporary files.
C16_SaveQueueToFile ==
    [][/\ Len(dialogLog') > Len(dialogLog)
            => LET r == dialogLog'[Len(dialogLog')]
               IN  /\ UNCHANGED <<recorderVars, writes, files, loadJSONLog, userFiles>>
                   /\ IF r.path \in SavePaths
                      THEN /\ consoleErrors' = consoleErrors
                           /\ {sv.call : sv \in saves'} = {sv.call : sv \in saves} \cup {r.call}
                           /\ \A sv \in saves : sv.call # r.call
                           /\ \E sv \in saves' :
                                /\ sv.call = r.call /\ sv.path = r.path /\ sv.pos = -1
                                /\ HoldsPendingQueue(sv.payload)
                      ELSE /\ saves' = saves
                           /\ Len(consoleErrors') = Len(consoleErrors) + 1
       /\ userFiles' # userFiles
            => /\ \E sv \in saves :
                    /\ DOMAIN userFiles' = DOMAIN userFiles \cup {sv.path}
                    /\ \A n \in DOMAIN userFiles \ {sv.path} : userFiles'[n] = userFiles[n]
                    /\ \/ sv.pos = -1 /\ userFiles'[sv.path] = <<>>
                       \/ /\ sv.pos >= 0
                          /\ \E after \in saves' :
                                /\ after.call = sv.call
                                /\ after.pos > sv.pos /\ after.pos <= Len(sv.payload)
                                /\ userFiles'[sv.path] =
                                      WriteAt(userFiles[sv.path], sv.payload,
                                              sv.pos, after.pos)
               /\ UNCHANGED <<recorderVars, writes, files, loadJSONLog>>
       /\ \A sv \in saves' :
             (sv.alone /\ sv.pos >= 0)
                => userFiles'[sv.path] = SubSeq(sv.payload, 1, sv.pos)
       /\ (saveCount' # saveCount \/ saves' # saves \/ dialogs' # dialogs)
            => UNCHANGED <<recorderVars, writes, files, loadJSONLog>>
       /\ saveCount' # saveCount => UNCHANGED <<userFiles, saves>>]_vars

\* C16 witness: one call got no path and logged, another got q1.json, and the
\* only file written is q1.json, holding the whole document of a pending queue
\* that is not empty, its options first.
C16_Witness ==
    /\ \E i, j \in DOMAIN dialogLog :
          /\ dialogLog[i].path = "undefined"
          /\ dialogLog[j].path = "q1.json"
    /\ consoleErrors = <<"Could not save queue because path is undefined">>
    /\ DOMAIN userFiles = {"q1.json"}
    /\ HoldsPendingQueue(userFiles["q1.json"])
    /\ SubSeq(userFiles["q1.json"], 1, 12) =
          <<"{", "\n", " ", " ", "\"", "m", "o", "d", "e", "\"", ":", " ">>
    /\ dolphinQueue # <<>>
    /\ saves = {} /\ dialogs = {}

\* C20: whenever loadJSON is called in the load path, the temporary queue file
\* it is given holds the whole document of that materialization.
C20_LoadOnlyAfterWrite ==
    \A k \in DOMAIN loadJSONLog :
        loadJSONLog[k].content = loadJSONLog[k].payload

----------------------------------------------------------------------------
\* Queries of the device, the filter and the kill.

\* C17: every command sent to the recording controller was preceded, in the
\* same handler, by a query of the device's recording state.
C17_QueriesBeforeEveryCommand ==
    \A k \in DOMAIN cmdLog : cmdLog[k].queried

\* A playback handler has run to its end in this step, its command completed.
PlaybackHandlerCompleted ==
    /\ pbSubscribed'
    /\ \E h \in handlers :
          /\ h.src = "playback" /\ h.pc = "cmd"
          /\ \A h2 \in handlers' : ~(h2.src = "playback" /\ h2.e = h.e)

\* C18: the filter is applied to a playback event when it arrives and never
\* again.  A handler begins, or a payload is buffered, only for the event
\* arriving in that step with recording enabled and the controller connected,
\* or for a payload already buffered; and when the handler before it completes,
\* the first buffered payload is handled, and sends its command at once if it
\* is a PLAYBACK_START or a PLAYBACK_END without settle delay, whatever
\* recordingEnabled and the connection are by then.
C18_FilterAppliedOnArrival ==
    [][/\ \A i \in DOMAIN begun' :
            i > Len(begun)
            => \/ \E j \in DOMAIN pbBuffer : pbBuffer[j] = begun'[i]
               \/ /\ begun'[i].id = evCount + 1 /\ evCount' = evCount + 1
                  /\ recordingEnabled /\ obsConnected
       /\ \A j \in DOMAIN pbBuffer' :
            \/ \E i \in DOMAIN pbBuffer : pbBuffer[i] = pbBuffer'[j]
            \/ /\ pbBuffer'[j].id = evCount + 1 /\ evCount' = evCount + 1
               /\ recordingEnabled /\ obsConnected
       /\ (PlaybackHandlerCompleted /\ pbBuffer # <<>>)
            => /\ Len(begun') > Len(begun)
               /\ begun'[Len(begun) + 1] = Head(pbBuffer)
               /\ (\/ Head(pbBuffer).status = "PLAYBACK_START"
                   \/ /\ Head(pbBuffer).status = "PLAYBACK_END"
                      /\ ~(Head(pbBuffer).hasData /\ Head(pbBuffer).gameEnded))
                    => /\ Len(cmdLog') > Len(cmdLog)
                       /\ cmdLog'[Len(cmdLog) + 1].e = Head(pbBuffer)]_vars

\* C18 witness: a playback command sent at the start of its handler (no settle
\* delay) at a moment when recording was disabled or the controller was
\* disconnected: its event had arrived armed and waited in the buffer.
C18_Witness ==
    \E k \in DOMAIN cmdLog :
        /\ cmdLog[k].src = "playback" /\ ~cmdLog[k].delayed
        /\ ~cmdLog[k].armed
        /\ cmdLog[k].e.load < loadCount
        /\ ~recordingEnabled

\* C19: the engine is killed only in the handling of a QUEUE_EMPTY, with an
\* engine handle in place, and either no STOP was sent for that event or the
\* STOP was sent in an earlier step and completes successfully in this one;
\* the step in which a command fails kills nothing.
C19_KillOnlyAfterStopSucceeded ==
    [][/\ \A n \in DOMAIN killLog' :
            n > Len(killLog)
            => LET id == killLog'[n]
               IN  /\ dolphin # "none" /\ loadCount > 0
                   /\ \E i \in DOMAIN begun' :
                         begun'[i].id = id /\ begun'[i].status = "QUEUE_EMPTY"
                   /\ \A h \in handlers' : ~(h.src = "playback" /\ h.e.id = id)
                   /\ \A k \in DOMAIN cmdLog' :
                         (cmdLog'[k].src = "playback" /\ cmdLog'[k].e.id = id)
                         => /\ k \in DOMAIN cmdLog
                            /\ cmdLog[k].action = "STOP"
                            /\ \E h \in InFlight :
                                 h.src = "playback" /\ h.e.id = id /\ h.kill
                            /\ pbSubscribed'
                            /\ obsStatus' = "STOPPED"
       /\ (pbSubscribed /\ ~pbSubscribed')
            => (killLog' = killLog /\ dolphin' = dolphin)]_vars

\* C19 witness: a QUEUE_EMPTY whose STOP was sent and completed, and the engine
\* killed after it.
C19_Witness ==
    \E i \in DOMAIN killLog, k \in DOMAIN cmdLog :
        /\ cmdLog[k].src = "playback" /\ cmdLog[k].e.id = killLog[i]
        /\ cmdLog[k].e.status = "QUEUE_EMPTY" /\ cmdLog[k].action = "STOP"
        /\ dolphin = "killed" /\ obsStatus = "STOPPED"

====
